---------------------------- MODULE Spec2Model ----------------------------
(***************************************************************************)
(* A model of git-sync-js: one run of commitAndSync (src/unnamed/part_001) *)
(* over an abstract git repository, with the inspection and classification *)
(* functions of src/src/inspect.ts computed as the code computes them.     *)
(*                                                                         *)
(* The repository is described relative to the merge base M of the local   *)
(* HEAD and the remote-tracking branch origin/<branch>:                    *)
(*   left   commits reachable from origin/<branch> only                    *)
(*   right  commits reachable from HEAD only                               *)
(* which is exactly what `git rev-list --count --left-right                *)
(* origin/<branch>...HEAD` prints as "<left>\t<right>\n".                  *)
(***************************************************************************)
EXTENDS Integers, Sequences, FiniteSets, TLC

\* ------------------------------------------------------------------ bounds

\* Largest number of local-only / remote-only commits of an initial repository.
MaxCommits == 10

\* Largest number of commits on the remote that have not been fetched yet.
MaxPending == 1

\* The longest access token a GitPullPushError is built with.
MaxTokenLength == 26

\* The most lines a status listing has.
MaxStatusLines == 2

\* ------------------------------------------------------- values and inputs

\* An optional string is <<>> (undefined) or <<s>> (the string s).
Undefined == <<>>

Some(s) == <<s>>

ExampleRemoteUrl == "https://github.com/user/repo"

ExampleToken == "ghp_token"

OptionalTokens == {Undefined, Some(""), Some(ExampleToken)}

OptionalUrls == {Undefined, Some(""), Some(ExampleRemoteUrl)}

\* What `${remoteName}` yields when the value is a logger object.
ObjectAsString == "[object Object]"

\* The six operation markers probed inside the git directory.
Markers ==
    {"rebase-merge/interactive", "rebase-merge", "rebase-apply",
     "MERGE_HEAD", "CHERRY_PICK_HEAD", "BISECT_LOG"}

\* How the directory relates to a repository: the root of a working tree, a
\* directory below the root, a bare repository, no repository, or a path that
\* does not exist on disk (the process runner itself throws).
RepoKinds == {"root", "subdir", "bare", "none", "missing"}

\* The marker sets a git directory can hold: the interactive marker is a file
\* inside the rebase-merge directory.
MarkerSetsOnDisk ==
    {ms \in SUBSET Markers : "rebase-merge/interactive" \in ms => "rebase-merge" \in ms}

\* The marker sets an initial repository is drawn from.
InitialMarkerSets == {{}, {"rebase-merge"}, {"MERGE_HEAD"}}

\* git config of the remote-name keys read by getRemoteName ("" = unset).
RemoteConfigs ==
    { [pushRemote |-> "", pushDefault |-> "", branchRemote |-> "origin"],
      [pushRemote |-> "upstream", pushDefault |-> "", branchRemote |-> "origin"],
      [pushRemote |-> "", pushDefault |-> "upstream", branchRemote |-> ""] }

\* Exit codes of a failing git command (128: transport / authentication).
FailureCodes == {1, 128}

VARIABLES
    \* ---- the options of the call
    accessToken,    \* userInfo.accessToken, optional
    remoteUrl,      \* options.remoteUrl, optional
    logger,         \* TRUE iff options.logger is supplied
    \* ---- the repository on disk
    repoKind,       \* see RepoKinds
    markers,        \* operation markers present in the git directory
    dirty,          \* `git status --porcelain` lists a change haveLocalChanges matches
    hasUpstream,    \* origin/<branch> exists
    left,           \* commits only on origin/<branch>
    right,          \* commits only on HEAD
    pending,        \* commits on the remote not yet fetched into origin/<branch>
    remoteConfig,   \* the remote-name keys of git config
    otherRef,       \* upstream/<branch>: <<>> (absent) or <<u>>, its position
                    \* on the line M..origin/<branch> (u > 0) or below M (u <= 0)
    remotes,        \* remote name -> [url, credential] of the configured remotes
    \* ---- the run
    pc,             \* the step commitAndSync is at
    exitCode,       \* `let exitCode`
    stderr,         \* `let stderr`: <<>> or <<command whose stderr it holds>>
    syncState,      \* the value of getSyncState the switch of line 95 ran on, "" before
    compared,       \* <<>> or <<rel>>: the ref relation that call of rev-list printed
    failures,       \* the git commands that exited non-zero so far, in order
    outcome,        \* "" while running, "returned", or the name of the fault thrown
    faultDetail,    \* what the fault carries (parameterName, stderr, sync state)
    cmds,           \* the steps executed so far, in order
    loopCaller,     \* which call of continueRebase is running: "", "preflight", "diverged"
    attempts,       \* recovery attempts of the running continueRebase
    divergedCheck,  \* <<>> or <<[exit, state, sync]>>: what line 135 had to decide on
    initial,        \* the repository as it was when the run started
    \* ---- a function of the library called on its own
    call,           \* <<>> or the function called with its arguments
    result          \* what the call has produced so far, in order

fnVars == <<call, result>>

repoVars == <<repoKind, markers, dirty, hasUpstream, left, right, pending,
              remoteConfig, otherRef, remotes>>

optionVars == <<accessToken, remoteUrl, logger>>

runVars == <<pc, exitCode, stderr, syncState, compared, failures, outcome,
             faultDetail, cmds, loopCaller, attempts, divergedCheck, initial>>

vars == <<optionVars, repoVars, runVars, fnVars>>

\* --------------------------------------------------- rev-list and getSyncState

DigitChars == <<"0", "1", "2", "3", "4", "5", "6", "7", "8", "9">>

Digits == {DigitChars[i] : i \in 1..10}

RECURSIVE Decimal(_)
\* The decimal numeral of a natural number, as a sequence of characters.
Decimal(n) ==
    IF n < 10 THEN <<DigitChars[n + 1]>>
    ELSE Decimal(n \div 10) \o <<DigitChars[(n % 10) + 1]>>

\* stdout of `git rev-list --count --left-right <ref>...HEAD`: empty when the
\* ref does not resolve (rel = <<>>), else "<left>\t<right>\n".
RevListStdout(rel) ==
    IF rel = <<>> THEN <<>>
    ELSE Decimal(rel[1]) \o <<"\t">> \o Decimal(rel[2]) \o <<"\n">>

\* /0\t0/.exec(stdout) !== null : the pattern is not anchored.
MatchZeroTabZero(s) ==
    \E i \in 1..(Len(s) - 2) : s[i] = "0" /\ s[i + 1] = "\t" /\ s[i + 2] = "0"

\* /0\t\d+/.exec(stdout) !== null
MatchZeroTabDigits(s) ==
    \E i \in 1..(Len(s) - 2) : s[i] = "0" /\ s[i + 1] = "\t" /\ s[i + 2] \in Digits

\* /\d+\t0/.exec(stdout) !== null
MatchDigitsTabZero(s) ==
    \E i \in 1..(Len(s) - 2) : s[i] \in Digits /\ s[i + 1] = "\t" /\ s[i + 2] = "0"

\* The classification getSyncState makes of the rev-list stdout.
ClassifyStdout(stdout) ==
    IF stdout = <<>> THEN "noUpstreamOrBareUpstream"
    ELSE IF MatchZeroTabZero(stdout) THEN "equal"
    ELSE IF MatchZeroTabDigits(stdout) THEN "ahead"
    ELSE IF MatchDigitsTabZero(stdout) THEN "behind"
    ELSE "diverged"

\* getRemoteName: branch.<b>.pushRemote, remote.pushDefault, branch.<b>.remote, 'origin'.
getRemoteName(config) ==
    IF config.pushRemote # "" THEN config.pushRemote
    ELSE IF config.pushDefault # "" THEN config.pushDefault
    ELSE IF config.branchRemote # "" THEN config.branchRemote
    ELSE "origin"

\* How <name>/<branch> relates to HEAD: <<>> when the ref does not exist, else
\* <<commits only on the ref, commits only on HEAD>>.
RefRelation(name, up, l, r, other) ==
    IF name = "origin" THEN (IF up THEN <<l, r>> ELSE <<>>)
    ELSE IF name = "upstream" THEN
        (IF other = <<>> THEN <<>>
         ELSE IF other[1] >= 0 THEN <<other[1], r>>
         ELSE <<0, r - other[1]>>)
    ELSE <<>>

\* getSyncState(dir, defaultBranchName, remoteName, logger) on a repository:
\* remoteNameArg is the optional third argument.
getSyncState(remoteNameArg, config, up, l, r, other) ==
    LET remoteName == IF remoteNameArg = Undefined THEN getRemoteName(config)
                      ELSE remoteNameArg[1]
    IN  ClassifyStdout(RevListStdout(RefRelation(remoteName, up, l, r, other)))

\* The third argument commitAndSync passes to getSyncState and assumeSync: its
\* `logger`, which the callee receives as remoteName.
SyncStateArgument(lg) == IF lg THEN Some(ObjectAsString) ELSE Undefined

\* ------------------------------------------------------ getGitRepositoryState

\* What getGitDirectory does: "ok", or the fault it throws.
getGitDirectory(kind) ==
    CASE kind = "missing" -> "Error"
      [] kind \in {"none", "bare"} -> "CantSyncGitNotInitializedError"
      [] OTHER -> "ok"

\* hasGit(dir, strict = true)
hasGit(kind) ==
    IF getGitDirectory(kind) = "ok" THEN kind = "root"
    ELSE IF getGitDirectory(kind) = "CantSyncGitNotInitializedError" THEN FALSE
    ELSE TRUE

\* BaseVariant with the four later tokens appended after REBASE-m as well.
BaseVariantAppendingAfterRebaseM(ms) ==
    IF "rebase-merge/interactive" \in ms THEN <<"REBASE-i">>
    ELSE (IF "rebase-merge" \in ms THEN <<"REBASE-m">> ELSE <<>>)
         \o (IF "rebase-apply" \in ms THEN <<"AM/REBASE">> ELSE <<>>)
         \o (IF "MERGE_HEAD" \in ms THEN <<"MERGING">> ELSE <<>>)
         \o (IF "CHERRY_PICK_HEAD" \in ms THEN <<"CHERRY-PICKING">> ELSE <<>>)
         \o (IF "BISECT_LOG" \in ms THEN <<"BISECTING">> ELSE <<>>)

\* The base variant: the tokens of the markers, by precedence.
BaseVariant(ms) ==
    IF "rebase-merge/interactive" \in ms THEN <<"REBASE-i">>
    ELSE IF "rebase-merge" \in ms THEN <<"REBASE-m">>
    ELSE (IF "rebase-apply" \in ms THEN <<"AM/REBASE">> ELSE <<>>)
         \o (IF "MERGE_HEAD" \in ms THEN <<"MERGING">> ELSE <<>>)
         \o (IF "CHERRY_PICK_HEAD" \in ms THEN <<"CHERRY-PICKING">> ELSE <<>>)
         \o (IF "BISECT_LOG" \in ms THEN <<"BISECTING">> ELSE <<>>)

\* getGitRepositoryState as the sequence of tokens the result string is made
\* of (<<>> is the empty string), or <<"NOGIT">>, or <<"throws">> when
\* getGitDirectory throws past hasGit.
getGitRepositoryState(kind, ms, isDirty) ==
    IF ~hasGit(kind) THEN <<"NOGIT">>
    ELSE IF getGitDirectory(kind) # "ok" THEN <<"throws">>
    ELSE BaseVariant(ms)
         \o (IF kind = "bare" THEN <<"|BARE">> ELSE <<>>)
         \o (IF isDirty THEN <<"|DIRTY">> ELSE <<>>)

\* ------------------------------------------ the collaborators of the run

\* Recovery attempts one call of the conflict-resolution loop makes at most.
MaxAttempts == 2

\* The remote credentialOn changes when it is given no remote name.
DefaultRemote == "origin"

\* The committer name the credential is built from.
GitUserName == "gituser"

\* credentialOn(dir, remoteUrl, userName, accessToken, remoteName): the named
\* remote gets the given URL with `userName:accessToken@` after the scheme.
credentialOn(rs, url, userName, token, remoteName) ==
    IF remoteName \in DOMAIN rs
    THEN [rs EXCEPT ![remoteName] = [url |-> url, credential |-> <<userName, token>>]]
    ELSE rs

\* credentialOff(dir, remoteName): the named remote gets its credential-free
\* URL back; a name that is no remote of the repository changes nothing.
credentialOff(rs, remoteName) ==
    IF remoteName \in DOMAIN rs
    THEN [rs EXCEPT ![remoteName] = [url |-> rs[remoteName].url, credential |-> <<>>]]
    ELSE rs

\* A repository condition the loop counts as resolved: no interrupted operation.
NotSpecial(state) == state = <<>> \/ state = <<"|DIRTY">>

\* upstream/<branch> after the merge base moved up by n commits.
ShiftOther(other, n) == IF other = <<>> THEN <<>> ELSE <<other[1] - n>>

\* The outcomes one recovery attempt can have on the markers present: the
\* interrupted operation is continued to its end, aborted (second attempt
\* only), or left as it is.
RecoveryOutcomes(ms, attempt) ==
    IF ms = {} THEN {"stuck"}
    ELSE IF attempt = 1 THEN {"continued", "stuck"}
    ELSE {"continued", "aborted", "stuck"}

\* ------------------------------------------------------------------ Init

\* The repository on disk, as one value.
Repository ==
    [repoKind |-> repoKind, markers |-> markers, dirty |-> dirty,
     hasUpstream |-> hasUpstream, left |-> left, right |-> right,
     pending |-> pending, remoteConfig |-> remoteConfig, otherRef |-> otherRef,
     remotes |-> remotes]

\* The positions upstream/<branch> is drawn from: absent, at the merge base,
\* or where origin/<branch> is.
InitialOtherRefs(config, l) ==
    IF getRemoteName(config) = "upstream" THEN {<<>>, <<0>>, <<l>>} ELSE {<<>>}

InitialRemotes(config) ==
    IF getRemoteName(config) = "upstream"
    THEN [n \in {"origin", "upstream"} |-> [url |-> ExampleRemoteUrl, credential |-> <<>>]]
    ELSE [n \in {"origin"} |-> [url |-> ExampleRemoteUrl, credential |-> <<>>]]

Init ==
    /\ accessToken \in OptionalTokens
    /\ remoteUrl \in OptionalUrls
    /\ logger \in BOOLEAN
    /\ repoKind \in RepoKinds
    /\ remoteConfig \in RemoteConfigs
    /\ remotes = InitialRemotes(remoteConfig)
    /\ IF repoKind = "root"
       THEN /\ markers \in InitialMarkerSets
            /\ dirty \in BOOLEAN
            /\ hasUpstream \in BOOLEAN
            /\ IF hasUpstream
               THEN /\ left \in 0..MaxCommits
                    /\ right \in 0..MaxCommits
                    /\ pending \in 0..MaxPending
               ELSE left = 0 /\ right = 0 /\ pending = 0
            /\ otherRef \in InitialOtherRefs(remoteConfig, left)
       ELSE /\ markers = {}
            /\ dirty = FALSE
            /\ hasUpstream = FALSE
            /\ left = 0 /\ right = 0 /\ pending = 0
            /\ otherRef = <<>>
    /\ pc = "start"
    /\ exitCode = 0
    /\ stderr = <<>>
    /\ syncState = ""
    /\ compared = <<>>
    /\ failures = <<>>
    /\ outcome = ""
    /\ faultDetail = ""
    /\ cmds = <<>>
    /\ loopCaller = ""
    /\ attempts = 0
    /\ divergedCheck = <<>>
    /\ initial = Repository
    /\ call = <<>>
    /\ result = <<>>

\* ---------------------------------------------------------- commitAndSync

\* The run ends by throwing the fault `name` carrying `detail`.
Throws(name, detail) ==
    /\ pc' = "done"
    /\ outcome' = name
    /\ faultDetail' = detail

\* The run ends by returning.
Returns ==
    /\ pc' = "done"
    /\ outcome' = "returned"
    /\ faultDetail' = ""

\* The run goes on at step `next`.
Goto(next) ==
    /\ pc' = next
    /\ UNCHANGED <<outcome, faultDetail>>

\* The command `name` exited with `code`.
Exited(name, code) ==
    failures' = IF code = 0 THEN failures ELSE Append(failures, name)

\* CheckParameters with the two tests in the other order.
CheckParametersUrlFirst ==
    /\ pc = "start"
    /\ IF remoteUrl = Some("") \/ remoteUrl = Undefined
       THEN Throws("SyncParameterMissingError", "remoteUrl")
       ELSE IF accessToken = Some("") \/ accessToken = Undefined
       THEN Throws("SyncParameterMissingError", "accessToken")
       ELSE Goto("preflight")
    /\ UNCHANGED <<optionVars, repoVars, exitCode, stderr, syncState, compared,
                   failures, cmds, loopCaller, attempts, divergedCheck, initial, fnVars>>

\* Lines 26-35: the two required parameters.
CheckParameters ==
    /\ pc = "start"
    /\ IF accessToken = Some("") \/ accessToken = Undefined
       THEN Throws("SyncParameterMissingError", "accessToken")
       ELSE IF remoteUrl = Some("") \/ remoteUrl = Undefined
       THEN Throws("SyncParameterMissingError", "remoteUrl")
       ELSE Goto("preflight")
    /\ UNCHANGED <<optionVars, repoVars, exitCode, stderr, syncState, compared,
                   failures, cmds, loopCaller, attempts, divergedCheck, initial, fnVars>>

\* Preflight invoking the conflict-resolution loop a second time.
PreflightLoopingTwice ==
    /\ pc = "preflight"
    /\ LET state == getGitRepositoryState(repoKind, markers, dirty)
       IN  IF state = <<"throws">>
           THEN /\ Throws("Error", "getGitDirectory")
                /\ cmds' = Append(cmds, "getGitRepositoryState")
                /\ UNCHANGED <<loopCaller, attempts>>
           ELSE IF Len(state) = 0 \/ state = <<"|DIRTY">>
           THEN /\ Goto("commit")
                /\ cmds' = Append(cmds, "getGitRepositoryState")
                /\ UNCHANGED <<loopCaller, attempts>>
           ELSE IF state = <<"NOGIT">>
           THEN /\ Throws("CantSyncGitNotInitializedError", "dir")
                /\ cmds' = Append(cmds, "getGitRepositoryState")
                /\ UNCHANGED <<loopCaller, attempts>>
           ELSE /\ Goto("continueRebase")
                /\ cmds' = cmds \o <<"getGitRepositoryState", "continueRebase", "continueRebase">>
                /\ loopCaller' = "preflight"
                /\ attempts' = 0
    /\ UNCHANGED <<optionVars, repoVars, exitCode, stderr, syncState, compared,
                   failures, divergedCheck, initial, fnVars>>

\* Preflight with the '|DIRTY' alternative of the first test of line 65 left out.
PreflightCleanOnly ==
    /\ pc = "preflight"
    /\ LET state == getGitRepositoryState(repoKind, markers, dirty)
       IN  IF state = <<"throws">>
           THEN /\ Throws("Error", "getGitDirectory")
                /\ cmds' = Append(cmds, "getGitRepositoryState")
                /\ UNCHANGED <<loopCaller, attempts>>
           ELSE IF Len(state) = 0
           THEN /\ Goto("commit")
                /\ cmds' = Append(cmds, "getGitRepositoryState")
                /\ UNCHANGED <<loopCaller, attempts>>
           ELSE IF state = <<"NOGIT">>
           THEN /\ Throws("CantSyncGitNotInitializedError", "dir")
                /\ cmds' = Append(cmds, "getGitRepositoryState")
                /\ UNCHANGED <<loopCaller, attempts>>
           ELSE /\ Goto("continueRebase")
                /\ cmds' = cmds \o <<"getGitRepositoryState", "continueRebase">>
                /\ loopCaller' = "preflight"
                /\ attempts' = 0
    /\ UNCHANGED <<optionVars, repoVars, exitCode, stderr, syncState, compared,
                   failures, divergedCheck, initial, fnVars>>

\* Lines 59-73: the preflight inspection and what it leads to.
Preflight ==
    /\ pc = "preflight"
    /\ LET state == getGitRepositoryState(repoKind, markers, dirty)
       IN  IF state = <<"throws">>
           THEN /\ Throws("Error", "getGitDirectory")
                /\ cmds' = Append(cmds, "getGitRepositoryState")
                /\ UNCHANGED <<loopCaller, attempts>>
           ELSE IF Len(state) = 0 \/ state = <<"|DIRTY">>
           THEN /\ Goto("commit")
                /\ cmds' = Append(cmds, "getGitRepositoryState")
                /\ UNCHANGED <<loopCaller, attempts>>
           ELSE IF state = <<"NOGIT">>
           THEN /\ Throws("CantSyncGitNotInitializedError", "dir")
                /\ cmds' = Append(cmds, "getGitRepositoryState")
                /\ UNCHANGED <<loopCaller, attempts>>
           ELSE /\ Goto("continueRebase")
                /\ cmds' = cmds \o <<"getGitRepositoryState", "continueRebase">>
                /\ loopCaller' = "preflight"
                /\ attempts' = 0
    /\ UNCHANGED <<optionVars, repoVars, exitCode, stderr, syncState, compared,
                   failures, divergedCheck, initial, fnVars>>

\* Where commitAndSync goes on when continueRebase returns: after the call of
\* line 72 to the commit step, after the call of line 138 to the push of line 141.
AfterLoop(caller) ==
    IF caller = "preflight" THEN "commit" ELSE "pushDiverged"

\* RecoveryAttempt giving up one attempt later.
RecoveryAttemptOneMore ==
    /\ pc = "continueRebase"
    /\ attempts < MaxAttempts + 1
    /\ \E how \in RecoveryOutcomes(markers, attempts + 1) :
        LET rebasing == markers \cap {"rebase-merge/interactive", "rebase-merge", "rebase-apply"} # {}
            newMarkers == IF how = "stuck" THEN markers ELSE {}
            rebased == how = "continued" /\ rebasing /\ hasUpstream
            state == getGitRepositoryState(repoKind, newMarkers, dirty)
        IN  /\ markers' = newMarkers
            /\ left' = IF rebased THEN 0 ELSE left
            /\ otherRef' = IF rebased THEN ShiftOther(otherRef, left) ELSE otherRef
            /\ attempts' = attempts + 1
            /\ IF NotSpecial(state)
               THEN /\ Goto(AfterLoop(loopCaller))
                    /\ loopCaller' = ""
               ELSE IF attempts + 1 >= MaxAttempts + 1
               THEN /\ Throws("CantSyncInSpecialGitStateAutoFixFailed", "state")
                    /\ loopCaller' = loopCaller
               ELSE /\ Goto("continueRebase")
                    /\ loopCaller' = loopCaller
    /\ cmds' = Append(cmds, "recover")
    /\ UNCHANGED <<optionVars, repoKind, dirty, hasUpstream, right, pending,
                   remoteConfig, remotes, exitCode, stderr, syncState, compared,
                   failures, divergedCheck, initial, fnVars>>

\* continueRebase: one recovery attempt and the re-inspection after it.
RecoveryAttempt ==
    /\ pc = "continueRebase"
    /\ attempts < MaxAttempts
    /\ \E how \in RecoveryOutcomes(markers, attempts + 1) :
        LET rebasing == markers \cap {"rebase-merge/interactive", "rebase-merge", "rebase-apply"} # {}
            newMarkers == IF how = "stuck" THEN markers ELSE {}
            rebased == how = "continued" /\ rebasing /\ hasUpstream
            state == getGitRepositoryState(repoKind, newMarkers, dirty)
        IN  /\ markers' = newMarkers
            /\ left' = IF rebased THEN 0 ELSE left
            /\ otherRef' = IF rebased THEN ShiftOther(otherRef, left) ELSE otherRef
            /\ attempts' = attempts + 1
            /\ IF NotSpecial(state)
               THEN /\ Goto(AfterLoop(loopCaller))
                    /\ loopCaller' = ""
               ELSE IF attempts + 1 >= MaxAttempts
               THEN /\ Throws("CantSyncInSpecialGitStateAutoFixFailed", "state")
                    /\ loopCaller' = loopCaller
               ELSE /\ Goto("continueRebase")
                    /\ loopCaller' = loopCaller
    /\ cmds' = Append(cmds, "recover")
    /\ UNCHANGED <<optionVars, repoKind, dirty, hasUpstream, right, pending,
                   remoteConfig, remotes, exitCode, stderr, syncState, compared,
                   failures, divergedCheck, initial, fnVars>>

\* CommitStep with a commit that exits non-zero ending the run.
CommitStepFatal ==
    /\ pc = "commit"
    /\ IF dirty
       THEN /\ cmds' = cmds \o <<"haveLocalChanges", "commit">>
            /\ \E code \in {0, 1} :
                /\ dirty' = (code # 0)
                /\ right' = IF code = 0 THEN right + 1 ELSE right
                /\ Exited("commit", code)
                /\ IF code = 0 THEN Goto("credentialOn") ELSE Throws("Error", "commit")
       ELSE /\ cmds' = Append(cmds, "haveLocalChanges")
            /\ Goto("credentialOn")
            /\ UNCHANGED <<dirty, right, failures>>
    /\ UNCHANGED <<optionVars, repoKind, markers, hasUpstream, left, pending,
                   remoteConfig, otherRef, remotes, exitCode, stderr, syncState,
                   compared, loopCaller, attempts, divergedCheck, initial, fnVars>>

\* Lines 74-88: commit the local changes; a failing commit is only logged.
CommitStep ==
    /\ pc = "commit"
    /\ IF dirty
       THEN /\ cmds' = cmds \o <<"haveLocalChanges", "commit">>
            /\ \E code \in {0, 1} :
                /\ dirty' = (code # 0)
                /\ right' = IF code = 0 THEN right + 1 ELSE right
                /\ Exited("commit", code)
       ELSE /\ cmds' = Append(cmds, "haveLocalChanges")
            /\ UNCHANGED <<dirty, right, failures>>
    /\ Goto("credentialOn")
    /\ UNCHANGED <<optionVars, repoKind, markers, hasUpstream, left, pending,
                   remoteConfig, otherRef, remotes, exitCode, stderr, syncState,
                   compared, loopCaller, attempts, divergedCheck, initial, fnVars>>

\* Lines 89-90: embed the credential in the remote URL.
CredentialOnStep ==
    /\ pc = "credentialOn"
    /\ remotes' = credentialOn(remotes, remoteUrl[1], GitUserName, accessToken[1], DefaultRemote)
    /\ cmds' = Append(cmds, "credentialOn")
    /\ Goto("fetch")
    /\ UNCHANGED <<optionVars, repoKind, markers, dirty, hasUpstream, left, right,
                   pending, remoteConfig, otherRef, exitCode, stderr, syncState,
                   compared, failures, loopCaller, attempts, divergedCheck, initial, fnVars>>

\* Lines 91-92: fetch origin; the result of the command is not looked at. The
\* fetch can succeed only when the remote has the branch.
Fetch ==
    /\ pc = "fetch"
    /\ \E code \in {0, 128} :
        /\ code = 0 => hasUpstream
        /\ IF code = 0
           THEN left' = left + pending /\ pending' = 0
           ELSE UNCHANGED <<left, pending>>
        /\ Exited("fetch", code)
    /\ cmds' = Append(cmds, "fetch")
    /\ Goto("classify")
    /\ UNCHANGED <<optionVars, repoKind, markers, dirty, hasUpstream, right,
                   remoteConfig, otherRef, remotes, exitCode, stderr, syncState,
                   compared, loopCaller, attempts, divergedCheck, initial, fnVars>>

\* What the switch of line 95 does with the value getSyncState returned: the
\* step of the matching case label, or of `default`.
SwitchCase(state) ==
    CASE state = "equal" -> "equal"
      [] state = "noUpstream" -> "pushNoUpstream"
      [] state = "ahead" -> "pushAhead"
      [] state = "behind" -> "merge"
      [] state = "diverged" -> "rebase"
      [] OTHER -> "credentialOff"

\* The ref relation rev-list prints when getSyncState is called with the
\* optional remote name remoteNameArg.
ComparedRelation(remoteNameArg, config, up, l, r, other) ==
    RefRelation(IF remoteNameArg = Undefined THEN getRemoteName(config) ELSE remoteNameArg[1],
                up, l, r, other)

\* Classify with getSyncState fetching the remote before it counts.
ClassifyAfterFetch ==
    /\ pc = "classify"
    /\ LET fetched == IF hasUpstream THEN left + pending ELSE left
           state == getSyncState(SyncStateArgument(logger), remoteConfig,
                                 hasUpstream, fetched, right, otherRef)
       IN  /\ syncState' = state
           /\ compared' = <<ComparedRelation(SyncStateArgument(logger), remoteConfig,
                                             hasUpstream, fetched, right, otherRef)>>
           /\ left' = fetched
           /\ pending' = IF hasUpstream THEN 0 ELSE pending
           /\ IF SwitchCase(state) = "equal"
              THEN /\ remotes' = credentialOff(remotes, remoteUrl[1])
                   /\ cmds' = cmds \o <<"getSyncState", "credentialOff">>
                   /\ Returns
              ELSE /\ remotes' = remotes
                   /\ cmds' = Append(cmds, "getSyncState")
                   /\ Goto(SwitchCase(state))
    /\ exitCode' = 0
    /\ stderr' = Undefined
    /\ UNCHANGED <<optionVars, repoKind, markers, dirty, hasUpstream, right,
                   remoteConfig, otherRef, failures, loopCaller, attempts,
                   divergedCheck, initial, fnVars>>

\* Lines 93-100 and the dispatch of the switch: classify; when equal, strip the
\* credential and return.
Classify ==
    /\ pc = "classify"
    /\ LET state == getSyncState(SyncStateArgument(logger), remoteConfig,
                                 hasUpstream, left, right, otherRef)
       IN  /\ syncState' = state
           /\ compared' = <<ComparedRelation(SyncStateArgument(logger), remoteConfig,
                                             hasUpstream, left, right, otherRef)>>
           /\ IF SwitchCase(state) = "equal"
              THEN /\ remotes' = credentialOff(remotes, remoteUrl[1])
                   /\ cmds' = cmds \o <<"getSyncState", "credentialOff">>
                   /\ Returns
              ELSE /\ remotes' = remotes
                   /\ cmds' = Append(cmds, "getSyncState")
                   /\ Goto(SwitchCase(state))
    /\ exitCode' = 0
    /\ stderr' = Undefined
    /\ UNCHANGED <<optionVars, repoKind, markers, dirty, hasUpstream, left, right,
                   pending, remoteConfig, otherRef, failures, loopCaller, attempts,
                   divergedCheck, initial, fnVars>>

\* `git push origin ...` can succeed only as a fast-forward of a remote that
\* holds nothing the local branch lacks, with no operation in progress.
PushCanSucceed == pending = 0 /\ (hasUpstream => left = 0) /\ markers = {}

\* The repository after a successful push: origin/<branch> is where HEAD is.
Pushed ==
    /\ hasUpstream' = TRUE
    /\ left' = 0
    /\ right' = 0
    /\ otherRef' = ShiftOther(otherRef, right)

\* Lines 101-118: the push of the noUpstream and of the ahead case.
Push ==
    /\ pc \in {"pushNoUpstream", "pushAhead"}
    /\ \E code \in {0} \cup FailureCodes :
        /\ code = 0 => PushCanSucceed
        /\ exitCode' = code
        /\ stderr' = Some("push")
        /\ Exited("push", code)
        /\ IF code = 0 THEN Pushed ELSE UNCHANGED <<hasUpstream, left, right, otherRef>>
        /\ IF code # 0 /\ pc = "pushNoUpstream"
           THEN Throws("CantSyncGitNotInitializedError", "dir")
           ELSE Goto("credentialOff")
    /\ cmds' = Append(cmds, "push")
    /\ UNCHANGED <<optionVars, repoKind, markers, dirty, pending, remoteConfig,
                   remotes, syncState, compared, loopCaller, attempts,
                   divergedCheck, initial, fnVars>>

\* Lines 119-127: fast-forward-only merge of origin/<branch>.
Merge ==
    /\ pc = "merge"
    /\ \E code \in {0} \cup FailureCodes :
        /\ code = 0 => (hasUpstream /\ right = 0)
        /\ exitCode' = code
        /\ stderr' = Some("merge")
        /\ Exited("merge", code)
        /\ IF code = 0
           THEN left' = 0 /\ otherRef' = ShiftOther(otherRef, left)
           ELSE UNCHANGED <<left, otherRef>>
    /\ cmds' = Append(cmds, "merge")
    /\ Goto("credentialOff")
    /\ UNCHANGED <<optionVars, repoKind, markers, dirty, hasUpstream, right,
                   pending, remoteConfig, remotes, syncState, compared, loopCaller,
                   attempts, divergedCheck, initial, fnVars>>

\* What `git rebase origin/<branch>` can do: replay every local commit
\* ("replayed"), find every local commit already upstream ("dropped"), stop
\* on a conflict ("conflict"), or refuse to start ("refused").
RebaseOutcomes == {"replayed", "dropped", "conflict", "refused"}

\* The condition of line 135, with its short-circuit evaluation.
RebaseSucceeded(code, state, sync) ==
    code = 0 /\ Len(state) = 0 /\ sync = "ahead"

\* Lines 128-140: rebase onto origin/<branch>, then either go on to the push
\* or call continueRebase.
Rebase ==
    /\ pc = "rebase"
    /\ \E how \in RebaseOutcomes, failure \in FailureCodes :
        LET done == how \in {"replayed", "dropped"}
            code == IF done THEN 0 ELSE IF how = "conflict" THEN 1 ELSE failure
            newMarkers == IF how = "conflict" THEN {"rebase-merge"} ELSE markers
            newLeft == IF done THEN 0 ELSE left
            newRight == IF how = "dropped" THEN 0 ELSE right
            newOther == IF done THEN ShiftOther(otherRef, left) ELSE otherRef
            state == getGitRepositoryState(repoKind, newMarkers, dirty)
            sync == getSyncState(SyncStateArgument(logger), remoteConfig,
                                 hasUpstream, newLeft, newRight, newOther)
        IN  /\ how # "refused" => (hasUpstream /\ failure = 1)
            /\ markers' = newMarkers
            /\ left' = newLeft
            /\ right' = newRight
            /\ otherRef' = newOther
            /\ exitCode' = code
            /\ stderr' = Some("rebase")
            /\ Exited("rebase", code)
            /\ divergedCheck' = <<[exit |-> code, state |-> state, sync |-> sync]>>
            /\ IF RebaseSucceeded(code, state, sync)
               THEN /\ Goto("pushDiverged")
                    /\ cmds' = cmds \o <<"rebase", "getGitRepositoryState", "getSyncState">>
                    /\ UNCHANGED <<loopCaller, attempts>>
               ELSE /\ Goto("continueRebase")
                    /\ cmds' = cmds \o <<"rebase">>
                              \o (IF code = 0 THEN <<"getGitRepositoryState">> ELSE <<>>)
                              \o (IF code = 0 /\ Len(state) = 0 THEN <<"getSyncState">> ELSE <<>>)
                              \o <<"continueRebase">>
                    /\ loopCaller' = "diverged"
                    /\ attempts' = 0
    /\ UNCHANGED <<optionVars, repoKind, dirty, hasUpstream, pending, remoteConfig,
                   remotes, syncState, compared, initial, fnVars>>

\* Lines 141-142: the push of the diverged case; its result is dropped.
PushDiverged ==
    /\ pc = "pushDiverged"
    /\ \E code \in {0} \cup FailureCodes :
        /\ code = 0 => PushCanSucceed
        /\ Exited("push", code)
        /\ IF code = 0 THEN Pushed ELSE UNCHANGED <<hasUpstream, left, right, otherRef>>
    /\ cmds' = Append(cmds, "push")
    /\ Goto("credentialOff")
    /\ UNCHANGED <<optionVars, repoKind, markers, dirty, pending, remoteConfig,
                   remotes, exitCode, stderr, syncState, compared, loopCaller,
                   attempts, divergedCheck, initial, fnVars>>

\* Line 148: credentialOff(dir, remoteUrl).
CredentialOffStep ==
    /\ pc = "credentialOff"
    /\ remotes' = credentialOff(remotes, remoteUrl[1])
    /\ cmds' = Append(cmds, "credentialOff")
    /\ Goto("verify")
    /\ UNCHANGED <<optionVars, repoKind, markers, dirty, hasUpstream, left, right,
                   pending, remoteConfig, otherRef, exitCode, stderr, syncState,
                   compared, failures, loopCaller, attempts, divergedCheck, initial, fnVars>>

\* assumeSync: "equal" when it returns, else the state AssumeSyncError is
\* thrown with.
assumeSync(remoteNameArg, config, up, l, r, other) ==
    getSyncState(remoteNameArg, config, up, l, r, other)

\* Lines 149-164: the final verification, or the fault of a failed command.
Verify ==
    /\ pc = "verify"
    /\ IF exitCode = 0
       THEN LET state == assumeSync(SyncStateArgument(logger), remoteConfig,
                                    hasUpstream, left, right, otherRef)
            IN  /\ cmds' = Append(cmds, "assumeSync")
                /\ IF state = "equal" THEN Returns
                   ELSE Throws("AssumeSyncError", state)
       ELSE /\ Throws("GitPullPushError", IF stderr = Undefined THEN "" ELSE stderr[1])
            /\ UNCHANGED cmds
    /\ UNCHANGED <<optionVars, repoVars, exitCode, stderr, syncState, compared,
                   failures, loopCaller, attempts, divergedCheck, initial, fnVars>>

Next ==
    \/ CheckParameters
    \/ Preflight
    \/ RecoveryAttempt
    \/ CommitStep
    \/ CredentialOnStep
    \/ Fetch
    \/ Classify
    \/ Push
    \/ Merge
    \/ Rebase
    \/ PushDiverged
    \/ CredentialOffStep
    \/ Verify

Spec == Init /\ [][Next]_vars

\* ------------------------------------------- functions called on their own

\* Text is a sequence of characters.
StartsWith(text, prefix) ==
    Len(prefix) <= Len(text) /\ SubSeq(text, 1, Len(prefix)) = prefix

EndsWith(text, suffix) ==
    Len(suffix) <= Len(text)
    /\ SubSeq(text, Len(text) - Len(suffix) + 1, Len(text)) = suffix

\* String.prototype.includes
Includes(text, part) ==
    \E i \in 0..(Len(text) - Len(part)) : SubSeq(text, i + 1, i + Len(part)) = part

HttpsScheme == <<"h", "t", "t", "p", "s", ":", "/", "/">>

GitSuffix == <<".", "g", "i", "t">>

\* The remote URLs the functions are called with: without the '.git' suffix,
\* with it, and with '.git' inside the host only.
RemoteUrlTexts ==
    { HttpsScheme \o <<"g", "h", ".", "c", "o", "/", "u", "/", "r">>,
      HttpsScheme \o <<"g", "h", ".", "c", "o", "/", "u", "/", "r">> \o GitSuffix,
      HttpsScheme \o <<"x">> \o GitSuffix \o <<"/", "r">> }

UserNameText == <<"l", "i", "n">>

\* The characters access tokens are cut from.
TokenChars ==
    <<"G", "H", "P", "_", "A", "b", "C", "d", "E", "f", "G", "h", "I", "j",
      "K", "l", "M", "n", "O", "p", "Q", "r", "S", "t", "U", "v", "W", "x",
      "Y", "z", "0", "1", "2", "3", "4", "5", "6", "7", "8", "9">>

\* The access tokens of 1..MaxTokenLength characters.
TokenTexts == {SubSeq(TokenChars, 1, n) : n \in 1..MaxTokenLength}

\* getGitUrlWithCredential that makes the URL end in '.git'.
getGitUrlWithCredentialAndSuffix(rawUrl, username, token) ==
    HttpsScheme \o username \o <<":">> \o token \o <<"@">>
        \o SubSeq(rawUrl, Len(HttpsScheme) + 1, Len(rawUrl))
        \o (IF EndsWith(rawUrl, GitSuffix) THEN <<>> ELSE GitSuffix)

\* getGitUrlWithCredential(rawUrl, username, accessToken): `username:accessToken@`
\* right after the scheme, the rest of the URL as it is.
getGitUrlWithCredential(rawUrl, username, token) ==
    HttpsScheme \o username \o <<":">> \o token \o <<"@">>
        \o SubSeq(rawUrl, Len(HttpsScheme) + 1, Len(rawUrl))

\* getGitUrlWithOutCredential that takes out the access token only.
getGitUrlWithOutToken(urlWithCredential) ==
    IF \E i \in 1..Len(urlWithCredential) : urlWithCredential[i] = "@"
    THEN LET at == CHOOSE i \in 1..Len(urlWithCredential) :
                      /\ urlWithCredential[i] = "@"
                      /\ \A j \in 1..(i - 1) : urlWithCredential[j] # "@"
         IN  HttpsScheme \o UserNameText \o SubSeq(urlWithCredential, at, Len(urlWithCredential))
    ELSE urlWithCredential

\* The URL without the credential: what stands between the scheme and the
\* first '@' is taken out, together with the '@'.
getGitUrlWithOutCredential(urlWithCredential) ==
    IF \E i \in 1..Len(urlWithCredential) : urlWithCredential[i] = "@"
    THEN LET at == CHOOSE i \in 1..Len(urlWithCredential) :
                      /\ urlWithCredential[i] = "@"
                      /\ \A j \in 1..(i - 1) : urlWithCredential[j] # "@"
         IN  HttpsScheme \o SubSeq(urlWithCredential, at + 1, Len(urlWithCredential))
    ELSE urlWithCredential

\* lodash truncate(string, { length }) with the default omission '...'.
truncate(string, length) ==
    LET omission == <<".", ".", ".">>
    IN  IF string = Undefined THEN <<>>
        ELSE IF Len(string[1]) <= length THEN string[1]
        ELSE SubSeq(string[1], 1, length - Len(omission)) \o omission

\* The length GitPullPushError truncates the access token to.
TruncateLength == 24

\* The message of GitPullPushError: the serialized configuration with
\* userInfo.accessToken replaced by its truncation, then the extra messages.
GitPullPushErrorMessage(configuration, extraMessages) ==
    <<"E", "-", "3", " ", "{">> \o <<"remoteUrl", ":">> \o configuration.remoteUrl
        \o <<",", "userInfo", ":", "{", "accessToken", ":">>
        \o truncate(configuration.accessToken, TruncateLength)
        \o <<"}", "}", ".", "\n">> \o extraMessages

\* ---- git status --porcelain

\* The two-column status codes `git status --porcelain` prints: a path not
\* updated in the index, a path changed in the index, an unmerged path, an
\* untracked path.
StatusCodes ==
    {<<" ", y>> : y \in {"M", "T", "D", "A"}}
    \cup {<<x, y>> : x \in {"M", "T", "A", "R", "C"}, y \in {" ", "M", "T", "D"}}
    \cup {<<"D", " ">>}
    \cup {<<"D", "D">>, <<"A", "U">>, <<"U", "D">>, <<"U", "A">>, <<"D", "U">>,
          <<"A", "A">>, <<"U", "U">>}
    \cup {<<"?", "?">>}

\* One line of the listing: the code, a space, the path.
StatusLine(code, path) == code \o <<" ">> \o path

\* stdout of the listing of `lines`: each line ended by a line feed.
RECURSIVE StatusStdout(_)
StatusStdout(lines) ==
    IF lines = <<>> THEN <<>>
    ELSE StatusLine(lines[1].code, lines[1].path) \o <<"\n">> \o StatusStdout(Tail(lines))

\* The unquoted paths of the listings: 'x' and 'xy'.
PlainPaths == {<<"x">>, <<"x", "y">>}

\* The listings of at most MaxStatusLines lines.
StatusListings ==
    UNION {[1..n -> [code : StatusCodes, path : PlainPaths]] : n \in 0..MaxStatusLines}

\* The positions where `^` matches under the m flag.
LineStarts(stdout) ==
    {p \in 1..Len(stdout) : p = 1 \/ stdout[p - 1] = "\n"}

\* haveLocalChanges with the untracked alternative `\?\?` left out.
haveLocalChangesTrackedOnly(stdout) ==
    \E p \in LineStarts(stdout) :
        /\ p + 1 <= Len(stdout)
        /\ \/ stdout[p] \in {"A", "C", "M", "R"} /\ stdout[p + 1] = " "
           \/ stdout[p] \in {" ", "A", "C", "M", "R"} /\ stdout[p + 1] \in {"D", "M"}

\* haveLocalChanges: /^(\?\?|[ACMR] |[ ACMR][DM])*/gm has a non-empty match,
\* which is a line start where one of the three alternatives matches.
haveLocalChanges(stdout) ==
    \E p \in LineStarts(stdout) :
        /\ p + 1 <= Len(stdout)
        /\ \/ stdout[p] = "?" /\ stdout[p + 1] = "?"
           \/ stdout[p] \in {"A", "C", "M", "R"} /\ stdout[p + 1] = " "
           \/ stdout[p] \in {" ", "A", "C", "M", "R"} /\ stdout[p + 1] \in {"D", "M"}

\* ---- quoted paths

\* The printable ASCII characters, from code 32 to code 126 (the grave accent,
\* which a string of this language cannot hold, by its name).
PrintableAscii ==
    <<
      " ", "!", "\"", "#", "$", "%", "&", "'", "(", ")", "*", "+", ",", "-", ".", "/",
      "0", "1", "2", "3", "4", "5", "6", "7", "8", "9", ":", ";", "<", "=", ">", "?",
      "@", "A", "B", "C", "D", "E", "F", "G", "H", "I", "J", "K", "L", "M", "N", "O",
      "P", "Q", "R", "S", "T", "U", "V", "W", "X", "Y", "Z", "[", "\\", "]", "^", "_",
      "U+60", "a", "b", "c", "d", "e", "f", "g", "h", "i", "j", "k", "l", "m", "n", "o",
      "p", "q", "r", "s", "t", "u", "v", "w", "x", "y", "z", "{", "|", "}", "~"
    >>

HexDigitChars ==
    <<"0", "1", "2", "3", "4", "5", "6", "7", "8", "9", "a", "b", "c", "d", "e", "f">>

\* Number.toString(16) of a natural number; "NaN" for NaN (written -1).
RECURSIVE toString16(_)
toString16(n) ==
    IF n < 0 THEN <<"N", "a", "N">>
    ELSE IF n < 16 THEN <<HexDigitChars[n + 1]>>
    ELSE toString16(n \div 16) \o <<HexDigitChars[(n % 16) + 1]>>

\* The value of a decimal digit character.
DigitValue(ch) == CHOOSE d \in 0..9 : DigitChars[d + 1] = ch

\* Number.parseInt(ds, 8) of three decimal digits: the value of the longest
\* prefix of octal digits, NaN (-1) when the first digit is 8 or 9.
parseIntRadix8(ds) ==
    LET v(i) == DigitValue(ds[i])
    IN  IF v(1) > 7 THEN -1
        ELSE IF v(2) > 7 THEN v(1)
        ELSE IF v(3) > 7 THEN v(1) * 8 + v(2)
        ELSE (v(1) * 8 + v(2)) * 8 + v(3)

\* gitEscapeToEncodedUri: every backslash followed by three digits becomes '%'
\* and the hexadecimal numeral of the octal value.
RECURSIVE gitEscapeToEncodedUri(_)
gitEscapeToEncodedUri(str) ==
    IF str = <<>> THEN <<>>
    ELSE IF /\ str[1] = "\\"
            /\ Len(str) >= 4
            /\ \A i \in 2..4 : str[i] \in Digits
    THEN <<"%">> \o toString16(parseIntRadix8(SubSeq(str, 2, 4)))
             \o gitEscapeToEncodedUri(SubSeq(str, 5, Len(str)))
    ELSE <<str[1]>> \o gitEscapeToEncodedUri(Tail(str))

\* What a call that throws URIError yields.
URIError == <<"URIError">>

\* The character of a code point: itself when printable ASCII, else its name.
RECURSIVE Concatenated(_)
Concatenated(chars) ==
    IF chars = <<>> THEN "" ELSE chars[1] \o Concatenated(Tail(chars))

Chr(cp) ==
    IF cp \in 32..126 THEN PrintableAscii[cp - 31]
    ELSE "U+" \o Concatenated(toString16(cp))

\* The value of a hexadecimal digit character, -1 for any other character.
HexValue(ch) ==
    IF \E d \in 1..16 : HexDigitChars[d] = ch
    THEN (CHOOSE d \in 1..16 : HexDigitChars[d] = ch) - 1
    ELSE IF ch \in {"A", "B", "C", "D", "E", "F"}
    THEN CASE ch = "A" -> 10 [] ch = "B" -> 11 [] ch = "C" -> 12
           [] ch = "D" -> 13 [] ch = "E" -> 14 [] ch = "F" -> 15
    ELSE -1

\* The byte of the escape sequence %XX at position p of str, -1 when there is
\* no such sequence there.
ByteAt(str, p) ==
    IF /\ p + 2 <= Len(str)
       /\ str[p] = "%"
       /\ HexValue(str[p + 1]) >= 0
       /\ HexValue(str[p + 2]) >= 0
    THEN HexValue(str[p + 1]) * 16 + HexValue(str[p + 2])
    ELSE -1

\* How many continuation bytes follow the leading byte b of a UTF-8 encoding
\* (0: b cannot lead one).
Continuations(b) ==
    IF b \in 194..223 THEN 1
    ELSE IF b \in 224..239 THEN 2
    ELSE IF b \in 240..244 THEN 3
    ELSE 0

\* The code point of a leading byte and its continuation bytes.
CodePoint(b, cont) ==
    CASE Len(cont) = 1 -> (b - 192) * 64 + (cont[1] - 128)
      [] Len(cont) = 2 -> ((b - 224) * 64 + (cont[1] - 128)) * 64 + (cont[2] - 128)
      [] Len(cont) = 3 ->
            (((b - 240) * 64 + (cont[1] - 128)) * 64 + (cont[2] - 128)) * 64 + (cont[3] - 128)

\* The code points a UTF-8 encoding of the given number of continuation bytes
\* may stand for: no overlong form, no surrogate, nothing above U+10FFFF.
WellFormed(cp, n) ==
    CASE n = 1 -> cp >= 128
      [] n = 2 -> cp >= 2048 /\ cp \notin 55296..57343
      [] n = 3 -> cp \in 65536..1114111

\* A decoded character put before the decoding of the rest.
Cons(ch, rest) == IF rest = URIError THEN URIError ELSE <<ch>> \o rest

\* decodeURIComponent: every %XX run that is the UTF-8 encoding of a code point
\* becomes its character; a '%' not followed by two hexadecimal digits, or
\* bytes that are not well-formed UTF-8, throw URIError.
RECURSIVE decodeURIComponent(_)
decodeURIComponent(str) ==
    IF str = <<>> THEN <<>>
    ELSE IF str[1] # "%" THEN Cons(str[1], decodeURIComponent(Tail(str)))
    ELSE LET b == ByteAt(str, 1)
             n == Continuations(b)
             cont == [i \in 1..n |-> ByteAt(str, 3 * i + 1)]
         IN  IF b < 0 THEN URIError
             ELSE IF b < 128
             THEN Cons(Chr(b), decodeURIComponent(SubSeq(str, 4, Len(str))))
             ELSE IF n = 0 \/ \E i \in 1..n : cont[i] \notin 128..191 THEN URIError
             ELSE IF ~WellFormed(CodePoint(b, cont), n) THEN URIError
             ELSE Cons(Chr(CodePoint(b, cont)),
                       decodeURIComponent(SubSeq(str, 3 * n + 4, Len(str))))

\* decodeGitEscape
decodeGitEscape(rawString) == decodeURIComponent(gitEscapeToEncodedUri(rawString))

\* The three octal digits of a byte.
OctalDigits(b) ==
    <<DigitChars[(b \div 64) + 1], DigitChars[((b \div 8) % 8) + 1], DigitChars[(b % 8) + 1]>>

\* A byte sequence as git writes it inside a quoted path.
RECURSIVE Escaped(_)
Escaped(bytes) ==
    IF bytes = <<>> THEN <<>>
    ELSE <<"\\">> \o OctalDigits(bytes[1]) \o Escaped(Tail(bytes))

\* The quoted path of the escaped bytes followed by the plain characters.
QuotedPath(bytes, plain) == <<"\"">> \o Escaped(bytes) \o plain \o <<"\"">>

\* ---- getModifiedFileList

\* \s and character classes of the regex of line 28.
IsSpace(ch) == ch \in {" ", "\t", "\n", "\r", "\f"}

\* stdout.split('\n') followed by compact: the non-empty lines.
RECURSIVE SplitLines(_, _)
SplitLines(stdout, line) ==
    IF stdout = <<>> THEN (IF line = <<>> THEN <<>> ELSE <<line>>)
    ELSE IF stdout[1] = "\n"
    THEN (IF line = <<>> THEN <<>> ELSE <<line>>) \o SplitLines(Tail(stdout), <<>>)
    ELSE SplitLines(Tail(stdout), Append(line, stdout[1]))

\* The ways /^\s?(\?\?|[ACMR]|[ACMR][DM])\s?(\S+.*\S+)$/ can be laid over a
\* line, in the order the matcher tries them: the optional \s taken or not,
\* the alternatives from left to right, the second optional \s taken or not.
MatchAttempts ==
    <<[lead |-> 1, alt |-> 1, sep |-> 1], [lead |-> 1, alt |-> 1, sep |-> 0],
      [lead |-> 1, alt |-> 2, sep |-> 1], [lead |-> 1, alt |-> 2, sep |-> 0],
      [lead |-> 1, alt |-> 3, sep |-> 1], [lead |-> 1, alt |-> 3, sep |-> 0],
      [lead |-> 0, alt |-> 1, sep |-> 1], [lead |-> 0, alt |-> 1, sep |-> 0],
      [lead |-> 0, alt |-> 2, sep |-> 1], [lead |-> 0, alt |-> 2, sep |-> 0],
      [lead |-> 0, alt |-> 3, sep |-> 1], [lead |-> 0, alt |-> 3, sep |-> 0]>>

\* The length of the text an alternative of the first group matches.
AltLength(alt) == IF alt = 2 THEN 1 ELSE 2

\* Whether the attempt matches the line.
AttemptMatches(line, a) ==
    LET p == a.lead + 1
        q == p + AltLength(a.alt)
        r == q + a.sep
    IN  /\ a.lead = 1 => (Len(line) >= 1 /\ IsSpace(line[1]))
        /\ q - 1 <= Len(line)
        /\ CASE a.alt = 1 -> line[p] = "?" /\ line[p + 1] = "?"
             [] a.alt = 2 -> line[p] \in {"A", "C", "M", "R"}
             [] a.alt = 3 -> line[p] \in {"A", "C", "M", "R"} /\ line[p + 1] \in {"D", "M"}
        /\ a.sep = 1 => (q <= Len(line) /\ IsSpace(line[q]))
        /\ r + 1 <= Len(line)
        /\ ~IsSpace(line[r])
        /\ ~IsSpace(line[Len(line)])

\* The groups of the first attempt that matches: <<[type, path]>>, or <<>>
\* when exec returns null.
StatusMatrixLine(line) ==
    LET matching == {i \in 1..Len(MatchAttempts) : AttemptMatches(line, MatchAttempts[i])}
    IN  IF matching = {} THEN <<>>
        ELSE LET a == MatchAttempts[CHOOSE i \in matching : \A j \in matching : i <= j]
                 p == a.lead + 1
                 q == p + AltLength(a.alt)
             IN  <<[type |-> SubSeq(line, p, q - 1),
                    path |-> SubSeq(line, q + a.sep, Len(line))]>>

\* Lines 50-52: a path in double quotes without ';' and ',' is decoded and
\* loses its quotes; any other path is kept as it is.
isSafeUtf8UnescapedString(raw) ==
    /\ raw # <<>>
    /\ raw[1] = "\""
    /\ raw[Len(raw)] = "\""
    /\ \A i \in 1..Len(raw) : raw[i] \notin {";", ","}

WithoutQuotes(str) ==
    LET s1 == IF str # <<>> /\ str[1] = "\"" THEN Tail(str) ELSE str
    IN  IF s1 # <<>> /\ s1[Len(s1)] = "\"" THEN SubSeq(s1, 1, Len(s1) - 1) ELSE s1

fileRelativePath(raw) ==
    IF isSafeUtf8UnescapedString(raw)
    THEN (IF decodeGitEscape(raw) = URIError THEN URIError
          ELSE WithoutQuotes(decodeGitEscape(raw)))
    ELSE raw

\* The folder the listing is taken in.
WikiFolderPath == <<"/", "w">>

\* path.join of the folder and a relative path that needs no normalisation.
PathJoin(dir, rel) == dir \o <<"/">> \o rel

\* The characters of the unquoted paths, in the order of the collation.
CollationOrder == <<" ", "A", "D", "M", "T", "U", "x", "y">>

Rank(ch) == CHOOSE i \in 1..Len(CollationOrder) : CollationOrder[i] = ch

\* a.localeCompare(b, 'zh') < 0 on texts of these characters.
RECURSIVE ComparesBefore(_, _)
ComparesBefore(a, b) ==
    IF b = <<>> THEN FALSE
    ELSE IF a = <<>> THEN TRUE
    ELSE IF a[1] = b[1] THEN ComparesBefore(Tail(a), Tail(b))
    ELSE Rank(a[1]) < Rank(b[1])

\* Array.prototype.sort with the comparison of line 59: stable.
RECURSIVE SortedByPath(_)
SortedByPath(items) ==
    IF Len(items) <= 1 THEN items
    ELSE LET front == SortedByPath(SubSeq(items, 1, Len(items) - 1))
             last == items[Len(items)]
             keep == Cardinality({i \in 1..Len(front) :
                         ~ComparesBefore(last.fileRelativePath, front[i].fileRelativePath)})
         IN  SubSeq(front, 1, keep) \o <<last>> \o SubSeq(front, keep + 1, Len(front))

\* The entries of the matching lines, in the order of the listing.
RECURSIVE Entries(_)
Entries(lines) ==
    IF lines = <<>> THEN <<>>
    ELSE LET m == StatusMatrixLine(lines[1])
         IN  (IF m = <<>> THEN <<>>
              ELSE <<[type |-> m[1].type,
                      fileRelativePath |-> fileRelativePath(m[1].path),
                      filePath |-> PathJoin(WikiFolderPath, fileRelativePath(m[1].path))]>>)
             \o Entries(Tail(lines))

\* getModifiedFileList on the listing stdout: the sorted entries, or the
\* URIError the decoding of a path throws.
getModifiedFileList(stdout) ==
    LET entries == Entries(SplitLines(stdout, <<>>))
    IN  IF \E i \in 1..Len(entries) : entries[i].fileRelativePath = URIError
        THEN [throws |-> "URIError", list |-> <<>>]
        ELSE [throws |-> "", list |-> SortedByPath(entries)]

\* The bytes of the examples of escaped paths: single bytes, and the UTF-8
\* encodings of U+00E9, U+65B0 and U+1F600.
EscapedByteSequences ==
    {<<b>> : b \in 0..255}
    \cup {<<195, 169>>, <<230, 150, 176>>, <<240, 159, 152, 128>>}

\* The characters that follow the escaped bytes inside the quotes.
PlainTails == {<<>>, <<"0">>, <<"x">>}

\* The listings of one untracked file whose path is quoted.
QuotedListings ==
    {<<[code |-> <<"?", "?">>, path |-> QuotedPath(bytes, plain)]>> :
        bytes \in EscapedByteSequences, plain \in PlainTails}

\* The calls: getGitRepositoryState on every repository kind, marker set found
\* on disk and working tree; credentialOn then credentialOff on a remote;
\* the construction of a GitPullPushError; haveLocalChanges on a listing.
Calls ==
    [fn : {"getGitRepositoryState"}, kind : RepoKinds, markers : MarkerSetsOnDisk,
     dirty : BOOLEAN]
    \cup [fn : {"credential"}, url : RemoteUrlTexts, token : TokenTexts]
    \cup [fn : {"GitPullPushError"}, url : RemoteUrlTexts,
          token : {Undefined} \cup {Some(t) : t \in TokenTexts}]
    \cup [fn : {"haveLocalChanges"}, lines : StatusListings]
    \cup [fn : {"getModifiedFileList"}, lines : StatusListings \cup QuotedListings]

FunctionInit ==
    /\ call \in Calls
    /\ result = <<>>
    /\ accessToken = Undefined /\ remoteUrl = Undefined /\ logger = FALSE
    /\ repoKind = "none" /\ markers = {} /\ dirty = FALSE /\ hasUpstream = FALSE
    /\ left = 0 /\ right = 0 /\ pending = 0
    /\ remoteConfig \in {c \in RemoteConfigs : c.branchRemote = "origin" /\ c.pushRemote = ""}
    /\ otherRef = <<>>
    /\ remotes = InitialRemotes(remoteConfig)
    /\ pc = "function"
    /\ exitCode = 0 /\ stderr = <<>> /\ syncState = "" /\ compared = <<>>
    /\ failures = <<>> /\ outcome = "" /\ faultDetail = "" /\ cmds = <<>>
    /\ loopCaller = "" /\ attempts = 0 /\ divergedCheck = <<>>
    /\ initial = Repository

CallGetGitRepositoryState ==
    /\ call.fn = "getGitRepositoryState"
    /\ result = <<>>
    /\ result' = <<getGitRepositoryState(call.kind, call.markers, call.dirty)>>
    /\ UNCHANGED <<optionVars, repoVars, runVars, call>>

\* credentialOn(dir, remoteUrl, userName, accessToken, remoteName): the URL
\* of the remote becomes the URL with the credential.
CallCredentialOn ==
    /\ call.fn = "credential"
    /\ result = <<>>
    /\ result' = <<getGitUrlWithCredential(call.url, UserNameText, call.token)>>
    /\ UNCHANGED <<optionVars, repoVars, runVars, call>>

\* credentialOff(dir, remoteName): the URL of the remote becomes the URL it
\* has without its credential.
CallCredentialOff ==
    /\ call.fn = "credential"
    /\ Len(result) = 1
    /\ result' = Append(result, getGitUrlWithOutCredential(result[1]))
    /\ UNCHANGED <<optionVars, repoVars, runVars, call>>

\* new GitPullPushError(options, stderr ?? '')
CallGitPullPushError ==
    /\ call.fn = "GitPullPushError"
    /\ result = <<>>
    /\ result' = <<GitPullPushErrorMessage([remoteUrl |-> call.url, accessToken |-> call.token],
                                           <<"f", "a", "t", "a", "l">>)>>
    /\ UNCHANGED <<optionVars, repoVars, runVars, call>>

\* haveLocalChanges(dir) on a repository whose listing is call.lines.
CallHaveLocalChanges ==
    /\ call.fn = "haveLocalChanges"
    /\ result = <<>>
    /\ result' = <<haveLocalChanges(StatusStdout(call.lines))>>
    /\ UNCHANGED <<optionVars, repoVars, runVars, call>>

\* getModifiedFileList(wikiFolderPath) on a repository whose listing is call.lines.
CallGetModifiedFileList ==
    /\ call.fn = "getModifiedFileList"
    /\ result = <<>>
    /\ result' = <<getModifiedFileList(StatusStdout(call.lines))>>
    /\ UNCHANGED <<optionVars, repoVars, runVars, call>>

FunctionNext ==
    \/ CallGetGitRepositoryState
    \/ CallCredentialOn
    \/ CallCredentialOff
    \/ CallGitPullPushError
    \/ CallHaveLocalChanges
    \/ CallGetModifiedFileList

FunctionSpec == FunctionInit /\ [][FunctionNext]_vars

\* ------------------------------------------------------------- properties

\* The run has ended, by a return or by a fault.
Done == pc = "done"

\* The step `c` was executed.
Ran(c) == \E i \in 1..Len(cmds) : cmds[i] = c

\* How often the step `c` was executed.
Count(c) == Cardinality({i \in 1..Len(cmds) : cmds[i] = c})

\* HEAD and origin/<branch> are the same commit.
TrulyEqual == hasUpstream /\ left = 0 /\ right = 0

\* The table of section 4.2 on a ref relation.
TableState(rel) ==
    IF rel = <<>> THEN "noUpstreamOrBareUpstream"
    ELSE IF rel[1] = 0 /\ rel[2] = 0 THEN "equal"
    ELSE IF rel[1] = 0 THEN "ahead"
    ELSE IF rel[2] = 0 THEN "behind"
    ELSE "diverged"

\* C1: for every rev-list output that is empty or "<left>\t<right>",
\* getSyncState returns the value the table gives for (left, right): whenever
\* the run has classified, the value it got is the table's value for the
\* relation rev-list printed.
C1_ClassifiesByTable ==
    compared # <<>> => syncState = TableState(compared[1])

\* C2: whenever commitAndSync returns normally, HEAD and the fetched
\* remote-tracking branch are truly equal.
C2_ReturnMeansEqual ==
    (Done /\ outcome = "returned") => TrulyEqual

\* C3: in every run in which credentialOn was executed, credentialOff is
\* executed before the run ends, on every exit path.
C3_CredentialOffOnEveryExit ==
    (Done /\ Ran("credentialOn")) => Ran("credentialOff")

\* The git command `c` exited non-zero at least once.
Failed(c) == \E i \in 1..Len(failures) : failures[i] = c

\* The step `c` was executed after the rebase of the diverged branch.
AfterRebase(c) ==
    \E i, j \in 1..Len(cmds) : i < j /\ cmds[i] = "rebase" /\ cmds[j] = c

\* The run was called with both required parameters on the root of a working
\* tree with no interrupted operation and no local change.
StartedClean ==
    /\ accessToken = Some(ExampleToken) /\ remoteUrl = Some(ExampleRemoteUrl)
    /\ initial.repoKind = "root" /\ initial.markers = {} /\ ~initial.dirty

\* The repository started with N >= 1 commits the remote lacks and nothing to get.
StartedAhead ==
    initial.hasUpstream /\ initial.left = 0 /\ initial.pending = 0 /\ initial.right >= 1

\* The repository started with N >= 1 commits to get from the remote and none of its own.
StartedBehind ==
    initial.hasUpstream /\ initial.right = 0 /\ initial.left + initial.pending >= 1

StartedEqual ==
    initial.hasUpstream /\ initial.right = 0 /\ initial.left = 0 /\ initial.pending = 0

\* C4: when every git command succeeds on a clean repository, a run that
\* starts ahead issues exactly one push and no merge or rebase, a run that
\* starts behind exactly one fast-forward merge and no push or rebase, both
\* returning with local and remote equal; a run that starts equal issues none
\* of the three and returns.
C4_AheadPushesBehindMerges ==
    (Done /\ StartedClean /\ failures = <<>>) =>
        /\ StartedAhead =>
            /\ Count("push") = 1 /\ Count("merge") = 0 /\ Count("rebase") = 0
            /\ outcome = "returned" /\ TrulyEqual
        /\ StartedBehind =>
            /\ Count("merge") = 1 /\ Count("push") = 0 /\ Count("rebase") = 0
            /\ outcome = "returned" /\ TrulyEqual
        /\ StartedEqual =>
            /\ Count("push") = 0 /\ Count("merge") = 0 /\ Count("rebase") = 0
            /\ outcome = "returned"

\* C5: when the classifier reports noUpstreamOrBareUpstream the run pushes the
\* local branch; a push that exits non-zero ends the run with
\* CantSyncGitNotInitializedError, a push that exits zero with a normal return
\* and local and remote equal.
C5_NoUpstreamPushes ==
    (Done /\ syncState = "noUpstreamOrBareUpstream") =>
        /\ Count("push") = 1
        /\ IF Failed("push") THEN outcome = "CantSyncGitNotInitializedError"
           ELSE outcome = "returned" /\ TrulyEqual

\* What the diverged branch found after the rebase: exit code 0, a clean
\* repository state and the state 'ahead'.
RebaseWentThrough ==
    /\ divergedCheck[1].exit = 0
    /\ divergedCheck[1].state = <<>>
    /\ divergedCheck[1].sync = "ahead"

\* C6: the diverged branch runs the rebase first; continueRebase is invoked
\* iff not (rebase exit code 0, repository state clean, state 'ahead'); when
\* the three hold the run goes from the rebase to the push without the loop
\* and, if the push succeeds, returns with local and remote equal.
C6_DivergedRebaseThenPush ==
    divergedCheck # <<>> =>
        /\ \E i \in 1..(Len(cmds) - 1) :
            /\ cmds[i] = "getSyncState" /\ cmds[i + 1] = "rebase"
            /\ \A j \in 1..(i - 1) : cmds[j] # "getSyncState"
        /\ AfterRebase("continueRebase") <=> ~RebaseWentThrough
        /\ (RebaseWentThrough /\ Done) =>
            /\ AfterRebase("push")
            /\ ~Failed("push") => (outcome = "returned" /\ TrulyEqual)

\* C7: whenever the diverged branch invokes the conflict-resolution loop, a
\* push is attempted afterwards, whether the loop succeeds or fails.
C7_PushAfterLoop ==
    (Done /\ AfterRebase("continueRebase")) => AfterRebase("push")

\* What the code does where C7 fails: when the loop invoked by the diverged
\* branch returns, a push is attempted afterwards; when it fails with its
\* fault, the run ends with that fault and no push is attempted.
PushAfterLoopThatReturns ==
    (Done /\ AfterRebase("continueRebase")) =>
        IF outcome = "CantSyncInSpecialGitStateAutoFixFailed"
        THEN ~AfterRebase("push")
        ELSE AfterRebase("push")

\* A run whose rebase stopped on a conflict, whose loop resolved it, and which
\* then pushed.
PushAfterResolvedConflict ==
    /\ Done
    /\ Failed("rebase")
    /\ AfterRebase("continueRebase")
    /\ AfterRebase("recover")
    /\ AfterRebase("push")
    /\ markers = {}

\* C8: whenever a push, merge or rebase of the run exits non-zero, the run ends
\* by throwing GitPullPushError carrying the stderr of a failed command.
C8_FailedCommandThrows ==
    (Done /\ (Failed("push") \/ Failed("merge") \/ Failed("rebase"))) =>
        /\ outcome = "GitPullPushError"
        /\ Failed(faultDetail)

\* C9: GitPullPushError is thrown only when a push, merge or rebase failed and
\* local and remote are not equal at the end of the run.
C9_PullPushErrorOnlyWhenUnequal ==
    (Done /\ outcome = "GitPullPushError") =>
        /\ Failed("push") \/ Failed("merge") \/ Failed("rebase")
        /\ ~TrulyEqual

\* The parameter is undefined or the empty string.
Missing(parameter) == parameter = Undefined \/ parameter = Some("")

\* The run ended with SyncParameterMissingError for `parameterName`, having
\* executed nothing and changed nothing.
RejectedFor(parameterName) ==
    /\ Done
    /\ outcome = "SyncParameterMissingError"
    /\ faultDetail = parameterName
    /\ cmds = <<>>
    /\ Repository = initial

\* C10: a missing accessToken makes the run throw SyncParameterMissingError
\* for 'accessToken'; otherwise a missing remoteUrl makes it throw the fault
\* for 'remoteUrl'; in both cases before any inspection or git command, with
\* the repository and its remote URL unchanged.
C10_MissingParameterRejected ==
    pc # "start" =>
        /\ Missing(accessToken) => RejectedFor("accessToken")
        /\ (~Missing(accessToken) /\ Missing(remoteUrl)) => RejectedFor("remoteUrl")

\* A run given a token but an empty remoteUrl, on a repository with local
\* changes and commits to push, has been rejected.
C10_Witness ==
    /\ accessToken = Some(ExampleToken)
    /\ remoteUrl = Some("")
    /\ RejectedFor("remoteUrl")
    /\ dirty /\ right > 0


\* What the preflight inspection of line 64 returned.
StartingState ==
    getGitRepositoryState(initial.repoKind, initial.markers, initial.dirty)

\* How often continueRebase was invoked before the commit step was reached.
LoopsBeforeCommit ==
    Cardinality({i \in 1..Len(cmds) :
        /\ cmds[i] = "continueRebase"
        /\ \A j \in 1..(i - 1) : cmds[j] # "haveLocalChanges"})

\* C11: once the preflight has inspected the repository: the state 'NOGIT'
\* ends the run with CantSyncGitNotInitializedError before any commit,
\* credentialOn or fetch; on the clean state and on exactly '|DIRTY' the loop
\* is not invoked before the commit step; on every other state it is invoked
\* exactly once before the commit step.
C11_PreflightDispatch ==
    (Ran("getGitRepositoryState") /\ StartingState # <<"throws">>) =>
        IF StartingState = <<"NOGIT">>
        THEN /\ Done /\ outcome = "CantSyncGitNotInitializedError"
             /\ ~Ran("haveLocalChanges") /\ ~Ran("commit")
             /\ ~Ran("credentialOn") /\ ~Ran("fetch")
        ELSE IF StartingState = <<>> \/ StartingState = <<"|DIRTY">>
        THEN LoopsBeforeCommit = 0
        ELSE LoopsBeforeCommit = 1

\* A run that started in an interrupted merge with local changes has gone
\* through the loop once and then committed.
C11_Witness ==
    /\ StartingState = <<"MERGING", "|DIRTY">>
    /\ LoopsBeforeCommit = 1
    /\ Ran("commit")
    /\ Done

\* A run on a directory that is no repository root has been refused.
C11_WitnessNoGit ==
    /\ StartingState = <<"NOGIT">>
    /\ outcome = "CantSyncGitNotInitializedError"
    /\ Done

\* The step `c` was executed after the commit step tested for local changes.
AfterCommitStep(c) ==
    \E i, j \in 1..Len(cmds) : i < j /\ cmds[i] = "haveLocalChanges" /\ cmds[j] = c

\* C12: the commit step commits iff the working tree has local changes when
\* it is reached, no other step commits, and a run whose commit exited
\* non-zero still executes credentialOn, fetch and the classification after it.
C12_CommitIffDirtyAndNeverFatal ==
    /\ [][pc = "commit" => (Count("commit")' = 1 <=> dirty)]_vars
    /\ [][pc # "commit" => Count("commit")' = Count("commit")]_vars
    /\ []((Done /\ Failed("commit")) =>
            /\ AfterCommitStep("credentialOn")
            /\ AfterCommitStep("fetch")
            /\ AfterCommitStep("getSyncState"))

\* A run whose commit failed has gone on to classify and has ended.
C12_Witness ==
    /\ Done
    /\ initial.dirty
    /\ Failed("commit")
    /\ dirty
    /\ AfterCommitStep("getSyncState")

\* Every execution of step `a` comes before every execution of step `b`.
Before(a, b) ==
    \A i, j \in 1..Len(cmds) : (cmds[i] = a /\ cmds[j] = b) => i < j

\* Every execution of step `b` has an execution of step `a` before it.
Preceded(a, b) ==
    \A j \in 1..Len(cmds) : cmds[j] = b => \E i \in 1..(j - 1) : cmds[i] = a

\* The git commands commitAndSync issues against the remote or onto its branch.
ReconciliationCommands == {"fetch", "push", "merge", "rebase"}

\* The order the steps of one run keep: the first step is the inspection, no
\* commit after the fetch, no classification before the fetch, every fetch,
\* push, merge and rebase after credentialOn and none after credentialOff,
\* credentialOff never before credentialOn, and each of the two at most once.
StepsInOrder ==
    /\ cmds # <<>> => cmds[1] = "getGitRepositoryState"
    /\ Before("commit", "credentialOn")
    /\ Before("commit", "fetch")
    /\ Preceded("fetch", "getSyncState")
    /\ Before("fetch", "getSyncState")
    /\ \A c \in ReconciliationCommands :
        /\ Preceded("credentialOn", c)
        /\ Before(c, "credentialOff")
    /\ \A c \in ReconciliationCommands \ {"fetch"} : Preceded("getSyncState", c)
    /\ Preceded("credentialOn", "credentialOff")
    /\ Before("credentialOff", "assumeSync")
    /\ Preceded("credentialOff", "assumeSync")
    /\ Count("credentialOn") <= 1
    /\ Count("credentialOff") <= 1

\* A run that committed, rebased, pushed, stripped the credential and
\* verified.
FullRunInOrder ==
    /\ Done
    /\ Ran("commit")
    /\ Ran("rebase")
    /\ Ran("push")
    /\ Ran("credentialOff")
    /\ Ran("assumeSync")

\* Every execution of step `a` has an execution of step `b` after it.
Followed(a, b) ==
    \A i \in 1..Len(cmds) : cmds[i] = a => \E j \in (i + 1)..Len(cmds) : cmds[j] = b

\* C13: the steps of one run are in the order preflight inspection, commit,
\* credentialOn, fetch, classification, reconciliation commands, credentialOff,
\* final verification, and in a run that has ended every fetch, push, merge
\* and rebase lies between the credentialOn before it and the credentialOff
\* after it.
C13_StepsInOrderInsideCredentialScope ==
    /\ StepsInOrder
    /\ Done => \A c \in ReconciliationCommands : Followed(c, "credentialOff")

\* C14: the logger is passive: wherever a run classifies (lines 95, 135 and
\* 151), the value getSyncState returns to the run is the value it returns to
\* the same run made without a logger, so both runs take the same case, issue
\* the same commands and end the same way.
C14_LoggerPassive ==
    pc \in {"classify", "rebase", "verify"} =>
        getSyncState(SyncStateArgument(logger), remoteConfig,
                     hasUpstream, left, right, otherRef)
            = getSyncState(SyncStateArgument(FALSE), remoteConfig,
                           hasUpstream, left, right, otherRef)

\* The commit counts the runs under fairness start from: none, a one-digit
\* and a two-digit count on either side.
FairCommitCounts == {0, 1, MaxCommits}

FairInit ==
    /\ Init
    /\ left \in FairCommitCounts
    /\ right \in FairCommitCounts

\* The run under the scheduling of an awaited sequence: each step that can be
\* taken is taken, every external invocation returning.
FairSpec == FairInit /\ [][Next]_vars /\ WF_vars(Next)

\* C15: every run ends, by a return or a fault, and it enters the
\* conflict-resolution loop at most once before the commit step and at most
\* once after the rebase, with at most one rebase and one push: nothing is
\* re-run.
C15_Terminates ==
    /\ <>Done
    /\ [](/\ LoopsBeforeCommit <= 1
          /\ Count("continueRebase") - LoopsBeforeCommit <= 1
          /\ Count("rebase") <= 1
          /\ Count("push") <= 1
          /\ Count("merge") <= 1
          /\ Count("fetch") <= 1)

\* A run that went through the loop in the preflight and again after the
\* rebase has ended.
C15_Witness ==
    /\ Done
    /\ LoopsBeforeCommit = 1
    /\ Count("continueRebase") = 2
    /\ AfterRebase("continueRebase")

\* The repository is in a special condition: an operation is interrupted.
StillSpecial == ~NotSpecial(getGitRepositoryState(repoKind, markers, dirty))

\* C16: one invocation of the conflict-resolution loop makes at most 2
\* recovery attempts; an attempt after which the re-inspected repository is
\* clean ends the loop with success; the loop goes on to another attempt only
\* after a first attempt that left the repository special; the second such
\* attempt ends it with CantSyncInSpecialGitStateAutoFixFailed.
C16_LoopMakesAtMostTwoAttempts ==
    /\ [](attempts <= 2)
    /\ [](pc = "continueRebase" => (attempts < 2 /\ (attempts > 0 => StillSpecial)))
    /\ [](outcome = "CantSyncInSpecialGitStateAutoFixFailed" =>
            (attempts = 2 /\ StillSpecial))
    /\ [][pc = "continueRebase" =>
            /\ attempts' = attempts + 1
            /\ ~StillSpecial' => (pc' \in {"commit", "pushDiverged"} /\ outcome' = "")
            /\ (StillSpecial' /\ attempts = 0) => pc' = "continueRebase"
            /\ (StillSpecial' /\ attempts = 1) =>
                (pc' = "done" /\ outcome' = "CantSyncInSpecialGitStateAutoFixFailed")]_vars

\* A loop invoked by the preflight has failed after its second attempt.
C16_Witness ==
    /\ Done
    /\ outcome = "CantSyncInSpecialGitStateAutoFixFailed"
    /\ loopCaller = "preflight"
    /\ attempts = 2
    /\ Count("recover") = 2

\* C17: credentialOn followed by credentialOff leaves the URL of the remote
\* equal to the URL before credentialOn: no '@', no token, and the '.git'
\* suffix present iff it was present before.
C17_CredentialRoundTrip ==
    (call.fn = "credential" /\ Len(result) = 2) =>
        /\ result[2] = call.url
        /\ ~Includes(result[2], <<"@">>)
        /\ ~Includes(result[2], call.token)
        /\ EndsWith(result[2], GitSuffix) <=> EndsWith(call.url, GitSuffix)

\* credentialOn and credentialOff have run on a remote whose URL ends in
\* '.git', with a token of the greatest length.
C17_Witness ==
    /\ call.fn = "credential"
    /\ Len(result) = 2
    /\ EndsWith(call.url, GitSuffix)
    /\ Len(call.token) = MaxTokenLength
    /\ Includes(result[1], call.token)

\* C18: after credentialOn the URL of the remote is
\* getGitUrlWithCredential(remoteUrl, userName, token): 'https://', then
\* 'userName:token@', then the rest of the given URL unchanged, with '.git' at
\* its end iff the given URL ended in '.git'.
C18_CredentialOnUrl ==
    (call.fn = "credential" /\ Len(result) >= 1) =>
        LET credential == UserNameText \o <<":">> \o call.token \o <<"@">>
            given == call.url
            url == result[1]
        IN  /\ url = getGitUrlWithCredential(given, UserNameText, call.token)
            /\ StartsWith(url, HttpsScheme \o credential)
            /\ SubSeq(url, Len(HttpsScheme) + Len(credential) + 1, Len(url))
                 = SubSeq(given, Len(HttpsScheme) + 1, Len(given))
            /\ EndsWith(url, GitSuffix) <=> EndsWith(given, GitSuffix)

\* credentialOn has run with a URL that holds '.git' but does not end in it.
C18_Witness ==
    /\ call.fn = "credential"
    /\ Len(result) = 1
    /\ Includes(call.url, GitSuffix)
    /\ ~EndsWith(call.url, GitSuffix)
    /\ Includes(result[1], <<"@">>)

\* C19: the message of a GitPullPushError never holds the complete access
\* token of the configuration it was built with, whatever the token's length.
C19_MessageNeverHoldsToken ==
    (call.fn = "GitPullPushError" /\ result # <<>> /\ call.token # Undefined) =>
        ~Includes(result[1], call.token[1])

\* The four tokens that can stand together, in the order they are reported,
\* and the marker each one stands for.
LaterTokens == <<"AM/REBASE", "MERGING", "CHERRY-PICKING", "BISECTING">>

MarkerOfToken ==
    [t \in {"AM/REBASE", "MERGING", "CHERRY-PICKING", "BISECTING"} |->
        CASE t = "AM/REBASE" -> "rebase-apply"
          [] t = "MERGING" -> "MERGE_HEAD"
          [] t = "CHERRY-PICKING" -> "CHERRY_PICK_HEAD"
          [] t = "BISECTING" -> "BISECT_LOG"]

\* The token `t` is part of the state `state`.
HasToken(state, t) == \E i \in 1..Len(state) : state[i] = t

\* C20: for every combination of the six markers, getGitRepositoryState
\* reports 'REBASE-i' alone if the interactive marker exists, otherwise
\* 'REBASE-m' alone if the rebase-merge directory exists, otherwise the tokens
\* AM/REBASE, MERGING, CHERRY-PICKING, BISECTING, in that order, of exactly the
\* markers that exist; after the base variant come '|BARE' and then '|DIRTY'.
C20_BaseVariantByPrecedence ==
    (call.fn = "getGitRepositoryState" /\ result # <<>>
        /\ result[1] # <<"NOGIT">> /\ result[1] # <<"throws">>) =>
        LET ms == call.markers
            state == result[1]
            Exists(t) == MarkerOfToken[t] \in ms
            modifiers == (IF call.kind = "bare" THEN <<"|BARE">> ELSE <<>>)
                         \o (IF call.dirty THEN <<"|DIRTY">> ELSE <<>>)
        IN  /\ "rebase-merge/interactive" \in ms => state = <<"REBASE-i">> \o modifiers
            /\ ("rebase-merge/interactive" \notin ms /\ "rebase-merge" \in ms) =>
                    state = <<"REBASE-m">> \o modifiers
            /\ ("rebase-merge/interactive" \notin ms /\ "rebase-merge" \notin ms) =>
                    state = SelectSeq(LaterTokens, Exists) \o modifiers
            /\ (HasToken(state, "REBASE-i") \/ HasToken(state, "REBASE-m")) =>
                    \A i \in 1..Len(LaterTokens) : ~HasToken(state, LaterTokens[i])

\* The state of a dirty repository with the rebase-merge directory, MERGE_HEAD
\* and BISECT_LOG has been reported.
C20_Witness ==
    /\ call.fn = "getGitRepositoryState"
    /\ call.markers = {"rebase-merge", "MERGE_HEAD", "BISECT_LOG"}
    /\ call.dirty
    /\ result = << <<"REBASE-m", "|DIRTY">> >>

\* The state of a repository with the four markers that can stand together
\* has been reported.
C20_WitnessAllFour ==
    /\ call.fn = "getGitRepositoryState"
    /\ call.markers = {"rebase-apply", "MERGE_HEAD", "CHERRY_PICK_HEAD", "BISECT_LOG"}
    /\ result = << <<"AM/REBASE", "MERGING", "CHERRY-PICKING", "BISECTING">> >>

\* C21: on a repository for which `rev-parse --is-bare-repository` answers
\* true, getGitRepositoryState returns a state that holds '|BARE' and is not
\* 'NOGIT', whatever interrupted operation and working-tree changes there are.
C21_BareIsReported ==
    (call.fn = "getGitRepositoryState" /\ call.kind = "bare" /\ result # <<>>) =>
        /\ result[1] # <<"NOGIT">>
        /\ HasToken(result[1], "|BARE")

\* The codes of section 4.1: untracked; added, copied, modified or renamed in
\* the index with nothing in the second column; D or M in the second column
\* after nothing or after one of those four.
ChangeCodes ==
    {<<"?", "?">>}
    \cup {<<x, " ">> : x \in {"A", "C", "M", "R"}}
    \cup {<<x, y>> : x \in {" ", "A", "C", "M", "R"}, y \in {"D", "M"}}

\* C22: haveLocalChanges returns true iff at least one line of the listing
\* begins with an untracked, added, copied, modified or renamed status code,
\* the two-column codes with D or M in the second column included; so false
\* for the empty listing and true for a listing of untracked files only.
C22_HaveLocalChangesByCode ==
    (call.fn = "haveLocalChanges" /\ result # <<>>) =>
        /\ result[1] <=> \E i \in 1..Len(call.lines) : call.lines[i].code \in ChangeCodes
        /\ call.lines = <<>> => result[1] = FALSE
        /\ (call.lines # <<>> /\ \A i \in 1..Len(call.lines) : call.lines[i].code = <<"?", "?">>)
                => result[1] = TRUE

\* A listing of a deleted path and an untracked file has been found to hold
\* local changes.
C22_Witness ==
    /\ call.fn = "haveLocalChanges"
    /\ Len(call.lines) = 2
    /\ call.lines[1].code = <<"D", " ">>
    /\ call.lines[2].code = <<"?", "?">>
    /\ result = <<TRUE>>

\* What inspection must leave alone: refs, index, working tree, interrupted
\* operation and remote configuration.
Inspected ==
    <<repoKind, markers, dirty, hasUpstream, left, right, pending, remoteConfig, otherRef>>

\* A step of getGitRepositoryState or getSyncState leaves the repository alone.
InspectionStepReadOnly ==
    pc \in {"preflight", "classify", "verify"} =>
        /\ Inspected' = Inspected
        /\ remotes' # remotes =>
              (pc = "classify" /\ cmds'[Len(cmds')] = "credentialOff")
        /\ pc = "preflight" =>
              getGitRepositoryState(repoKind', markers', dirty')
                  = getGitRepositoryState(repoKind, markers, dirty)

ClassifiedRemote ==
    IF SyncStateArgument(logger) = Undefined THEN getRemoteName(remoteConfig)
    ELSE SyncStateArgument(logger)[1]

\* The remote commitAndSync names in fetch, push, merge and rebase.
ReconciledRemote == "origin"

\* C24: within one run the remote whose branch getSyncState compares with HEAD
\* is the remote that was fetched before and that is pushed to, merged from or
\* rebased onto afterwards.
C24_ClassifiedRemoteIsReconciledRemote ==
    (Ran("fetch") /\ Ran("getSyncState")) => ClassifiedRemote = ReconciledRemote

\* C25: hasGit with strict = true is true exactly for the root of an
\* initialized working tree, false for every other directory whatever way the
\* probe fails; so getGitRepositoryState returns 'NOGIT', and does not throw,
\* for every path that is not a repository root.
C25_HasGitOnlyAtRoot ==
    (call.fn = "getGitRepositoryState" /\ result # <<>>) =>
        /\ hasGit(call.kind) <=> call.kind = "root"
        /\ call.kind # "root" => result[1] = <<"NOGIT">>

\* A status code without its blank column.
CodeText(code) == SelectSeq(code, LAMBDA ch : ch # " ")

\* The status codes the pattern of getModifiedFileList is written for: '??',
\* one of A, C, M, R, or one of A, C, M, R followed by D or M.
RecognisedCodeTexts ==
    {<<"?", "?">>}
    \cup {<<x>> : x \in {"A", "C", "M", "R"}}
    \cup {<<x, y>> : x \in {"A", "C", "M", "R"}, y \in {"D", "M"}}

\* C26: for every line of a recognised status code, a separator and a path of
\* one or more characters, getModifiedFileList returns exactly one entry whose
\* type is the complete status code and whose fileRelativePath is exactly the
\* path: as many such entries as the listing has such lines.
C26_OneEntryPerRecognisedLine ==
    (call.fn = "getModifiedFileList" /\ call.lines \in StatusListings /\ result # <<>>) =>
        \A i \in 1..Len(call.lines) :
            CodeText(call.lines[i].code) \in RecognisedCodeTexts =>
                Cardinality({j \in 1..Len(result[1].list) :
                                /\ result[1].list[j].type = CodeText(call.lines[i].code)
                                /\ result[1].list[j].fileRelativePath = call.lines[i].path})
                  = Cardinality({k \in 1..Len(call.lines) :
                                /\ CodeText(call.lines[k].code) = CodeText(call.lines[i].code)
                                /\ call.lines[k].path = call.lines[i].path})

\* The characters an escaped byte sequence stands for: the character of a
\* single byte below 0x80, or the character of one of the UTF-8 examples;
\* <<>> for bytes that are not valid UTF-8.
DecodedCharacters(bytes) ==
    CASE Len(bytes) = 1 /\ bytes[1] < 128 -> <<Chr(bytes[1])>>
      [] bytes = <<195, 169>> -> <<"U+e9">>
      [] bytes = <<230, 150, 176>> -> <<"U+65b0">>
      [] bytes = <<240, 159, 152, 128>> -> <<"U+1f600">>
      [] OTHER -> <<>>

\* The two hexadecimal digits of a byte.
TwoHexDigits(b) == <<HexDigitChars[(b \div 16) + 1], HexDigitChars[(b % 16) + 1]>>

\* C27: every byte written as a backslash and its three octal digits is
\* re-encoded as '%' and its two hexadecimal digits, so every escaped valid
\* UTF-8 sequence, and every escaped single byte below 0x80, decodes to its
\* characters without an error.
C27_EscapedBytesDecode ==
    (call.fn = "getModifiedFileList" /\ call.lines \in QuotedListings /\ result # <<>>) =>
        \A bytes \in EscapedByteSequences, plain \in PlainTails :
            (call.lines[1].path = QuotedPath(bytes, plain)) =>
                /\ \A i \in 1..Len(bytes) :
                      gitEscapeToEncodedUri(Escaped(<<bytes[i]>>))
                          = <<"%">> \o TwoHexDigits(bytes[i])
                /\ DecodedCharacters(bytes) # <<>> =>
                      /\ result[1].throws = ""
                      /\ Len(result[1].list) = 1
                      /\ result[1].list[1].fileRelativePath = DecodedCharacters(bytes) \o plain
========================================================================
